---------------------------- MODULE Spec2Model ----------------------------
(***************************************************************************)
(* Model of the housing pipeline of mle-training1:                         *)
(*   - ingest_data.py: DataLoader (download, load, stratified split, save) *)
(*   - train.py: the training script (split, optional scaling, fit)        *)
(*                                                                         *)
(* Conventions.                                                            *)
(*   - median_income is a real number; the model counts it in halves, so   *)
(*     the bin edges 0, 1.5, 3, 4.5, 6 are 0, 3, 6, 9, 12.                 *)
(*   - test_size is either a float, counted in tenths ([kind |-> "f"]), or *)
(*     a Python int ([kind |-> "i"]).                                      *)
(*   - a table is a sequence of rows; a frame taken from it is the         *)
(*     sequence of the row positions it holds (the pandas index) together  *)
(*     with its set of column names.                                       *)
(*   - logging calls have no effect on the modelled state.                 *)
(*   - numpy's generator is outside the repository: a RandomState is a     *)
(*     number, advanced by a linear congruential step, so that the same    *)
(*     seed gives the same draws and a different state different ones;     *)
(*     which step is taken is fixed when the program starts.               *)
(***************************************************************************)
EXTENDS Integers, Sequences, FiniteSets, TLC

\* ------------------------------------------------------------------ bounds

\* Rows of a file in the scenarios that vary download, columns and row order.
MaxRows == 3

\* Rows of a file in the scenarios that vary the bucket sizes (rows in
\* nondecreasing income order).
MaxSplitRows == 7

\* Rows of housing.csv read by the training script.
MaxTrainRows == 3

\* Invocations of one DataLoader object.
MaxRuns == 2

\* ------------------------------------------------------- program constants

\* np.inf, the last bin edge: above every income of the model.
Inf == 1000

\* The missing value (NaN): pd.cut's label of a value in no bin, and an empty
\* cell of housing.csv.
NaN == -1

\* random_state of the stratified split.
random_state == 43

\* ------------------------------------------------------------ sequences

RECURSIVE SumSeq(_)
SumSeq(s) == IF s = <<>> THEN 0 ELSE Head(s) + SumSeq(Tail(s))

Range(s) == {s[i] : i \in 1..Len(s)}

Min(a, b) == IF a <= b THEN a ELSE b

\* The elements of a set of integers, ascending (np.unique, np.sort).
RECURSIVE Ascending(_)
Ascending(S) ==
    IF S = {} THEN <<>>
    ELSE LET m == CHOOSE x \in S : \A y \in S : x <= y
         IN <<m>> \o Ascending(S \ {m})

\* The elements of a set of integers, descending (np.sort(...)[::-1]).
RECURSIVE Descending(_)
Descending(S) ==
    IF S = {} THEN <<>>
    ELSE LET m == CHOOSE x \in S : \A y \in S : x >= y
         IN <<m>> \o Descending(S \ {m})

\* seq.take(positions)
Take(seq, positions) == [i \in 1..Len(positions) |-> seq[positions[i]]]

Swap(seq, i, j) == [seq EXCEPT ![i] = seq[j], ![j] = seq[i]]

\* ceil(a / b) for b > 0
CeilDiv(a, b) == -((-a) \div b)

\* ------------------------------------------------------ numpy RandomState

\* The generator numpy was built with: a multiplier and an increment.
VARIABLE stream

\* The generators of the model.
Streams == {<<5, 3>>, <<13, 7>>, <<9, 5>>}

\* One draw advances the generator.
NextRng(s) == (stream[1] * s + stream[2]) % 16

\* RandomState(seed)
SeedRng(seed) == seed % 16

\* rng.permutation(seq): Fisher-Yates from the last position down.
RECURSIVE Shuffle(_, _, _)
Shuffle(seq, i, s) ==
    IF i <= 1 THEN [perm |-> seq, rng |-> s]
    ELSE Shuffle(Swap(seq, i, (s % i) + 1), i - 1, NextRng(s))

Permutation(seq, s) == Shuffle(seq, Len(seq), s)

\* ----------------------------------------------------------------- pd.cut

\* The bins of _split: [0, 1.5, 3, 4.5, 6, np.inf], in halves.
Bins == <<0, 3, 6, 9, 12, Inf>>

\* labels=list(range(5))
Labels == <<0, 1, 2, 3, 4>>

\* pd.cut(x, Bins, labels=Labels): right-closed bins (Bins[i], Bins[i+1]],
\* the lowest edge not included; a value in no bin has no label.
Cut(x) ==
    IF \E i \in 1..Len(Labels) : Bins[i] < x /\ x <= Bins[i + 1]
    THEN Labels[CHOOSE i \in 1..Len(Labels) : Bins[i] < x /\ x <= Bins[i + 1]]
    ELSE NaN

\* ------------------------------------------------- sklearn: the split sizes

\* _validate_shuffle_split(n_samples, test_size, train_size=None): a float
\* test_size must lie strictly between 0 and 1 and gives ceil(test_size * n)
\* test rows; an int test_size must lie in 1..n-1 and is the number of test
\* rows itself; the train set must not end up empty.
ValidateShuffleSplitFloor(n, ts) ==
    IF \/ ts.kind = "i" /\ (ts.v >= n \/ ts.v <= 0)
       \/ ts.kind = "f" /\ (ts.v <= 0 \/ ts.v >= 10)
    THEN [error |-> "ValueError", n_train |-> 0, n_test |-> 0]
    ELSE LET n_test == IF ts.kind = "f" THEN (ts.v * n) \div 10 ELSE ts.v
             n_train == n - n_test
         IN IF n_train = 0
            THEN [error |-> "ValueError", n_train |-> 0, n_test |-> 0]
            ELSE [error |-> "none", n_train |-> n_train, n_test |-> n_test]

ValidateShuffleSplit(n, ts) ==
    IF \/ ts.kind = "i" /\ (ts.v >= n \/ ts.v <= 0)
       \/ ts.kind = "f" /\ (ts.v <= 0 \/ ts.v >= 10)
    THEN [error |-> "ValueError", n_train |-> 0, n_test |-> 0]
    ELSE LET n_test == IF ts.kind = "f" THEN CeilDiv(ts.v * n, 10) ELSE ts.v
             n_train == n - n_test
         IN IF n_train = 0
            THEN [error |-> "ValueError", n_train |-> 0, n_test |-> 0]
            ELSE [error |-> "none", n_train |-> n_train, n_test |-> n_test]

\* The loop of _approximate_mode over the remainders, largest first: the
\* classes of one remainder get one more draw each, a random choice of them
\* (rng.choice without replacement: the head of a permutation) when fewer
\* draws are left than classes.
RECURSIVE AddByRemainder(_, _, _, _, _)
AddByRemainder(floored, remainder, values, need, s) ==
    IF need = 0 \/ values = <<>> THEN [n |-> floored, rng |-> s]
    ELSE LET inds == Ascending({i \in 1..Len(remainder) : remainder[i] = Head(values)})
             add_now == Min(Len(inds), need)
             p == Permutation(inds, s)
             chosen == {p.perm[k] : k \in 1..add_now}
             added == [i \in 1..Len(floored) |->
                          IF i \in chosen THEN floored[i] + 1 ELSE floored[i]]
         IN AddByRemainder(added, remainder, Tail(values), need - add_now, p.rng)

\* _approximate_mode(class_counts, n_draws, rng): class i gets
\* floor(class_counts[i] / total * n_draws) draws and the draws left over go
\* to the classes with the largest remainders. The remainders share the
\* denominator total, so their numerators are compared.
ApproximateMode(class_counts, n_draws, s) ==
    LET total == SumSeq(class_counts)
        floored == [i \in 1..Len(class_counts) |-> (class_counts[i] * n_draws) \div total]
        remainder == [i \in 1..Len(class_counts) |-> (class_counts[i] * n_draws) % total]
        need_to_add == n_draws - SumSeq(floored)
    IN IF need_to_add > 0
       THEN AddByRemainder(floored, remainder, Descending(Range(remainder)), need_to_add, s)
       ELSE [n |-> floored, rng |-> s]

\* ----------------------------------------- sklearn: StratifiedShuffleSplit

\* The loop over the classes of _iter_indices: class i's rows are permuted,
\* the first n_i[i] go to train and the next t_i[i] to test.
RECURSIVE TakeClassesOverlap(_, _, _, _, _, _, _)
TakeClassesOverlap(class_indices, n_i, t_i, i, train, test, s) ==
    IF i > Len(class_indices) THEN [train |-> train, test |-> test, rng |-> s]
    ELSE LET p == Permutation(class_indices[i], s)
         IN TakeClassesOverlap(class_indices, n_i, t_i, i + 1,
                               train \o SubSeq(p.perm, 1, n_i[i]),
                               test \o SubSeq(p.perm, n_i[i], n_i[i] + t_i[i] - 1),
                               p.rng)

RECURSIVE TakeClasses(_, _, _, _, _, _, _)
TakeClasses(class_indices, n_i, t_i, i, train, test, s) ==
    IF i > Len(class_indices) THEN [train |-> train, test |-> test, rng |-> s]
    ELSE LET p == Permutation(class_indices[i], s)
         IN TakeClasses(class_indices, n_i, t_i, i + 1,
                        train \o SubSeq(p.perm, 1, n_i[i]),
                        test \o SubSeq(p.perm, n_i[i] + 1, n_i[i] + t_i[i]),
                        p.rng)

\* StratifiedShuffleSplit(test_size=n_test, train_size=n_train,
\* random_state=rng).split(X, y): one split of the rows 1..Len(y), stratified
\* by the labels y.
StratifiedShuffleSplit(y, n_train, n_test, s) ==
    LET failed == [error |-> "ValueError", train |-> <<>>, test |-> <<>>, rng |-> s]
        classes == Ascending(Range(y))
        n_classes == Len(classes)
        class_indices == [c \in 1..n_classes |->
                             Ascending({r \in 1..Len(y) : y[r] = classes[c]})]
        class_counts == [c \in 1..n_classes |-> Len(class_indices[c])]
    IN IF NaN \in Range(y) THEN failed                      \* check_array(y)
       ELSE IF \E c \in 1..n_classes : class_counts[c] < 2 THEN failed
       ELSE IF n_train < n_classes \/ n_test < n_classes THEN failed
       ELSE LET m1 == ApproximateMode(class_counts, n_train, s)
                remaining == [c \in 1..n_classes |-> class_counts[c] - m1.n[c]]
                m2 == ApproximateMode(remaining, n_test, m1.rng)
                taken == TakeClasses(class_indices, m1.n, m2.n, 1, <<>>, <<>>, m2.rng)
                ptrain == Permutation(taken.train, taken.rng)
                ptest == Permutation(taken.test, ptrain.rng)
            IN [error |-> "none", train |-> ptrain.perm, test |-> ptest.perm,
                rng |-> ptest.rng]


\* ------------------------------------------------------------- the inputs

\* median_income values of the model, in halves: 0 (the lowest bin edge),
\* 1.5 (a bin's closed right edge), 2 and 6.5 (above the last finite edge).
Incomes == {0, 3, 4, 13}

\* Column sets of the input file: the expected columns, the income alone, and
\* a file without the income column.
ColumnSets == {{"median_income", "median_house_value"},
               {"median_income"},
               {"median_house_value"}}

NoFile == [exists |-> FALSE, vals |-> <<>>, cols |-> {}]

File(vals, cols) == [exists |-> TRUE, vals |-> vals, cols |-> cols]

\* Every table of at most n rows.
Tables(n) == UNION {[1..k -> Incomes] : k \in 0..n}

\* Every table of at most n rows in nondecreasing income order.
SortedTables(n) ==
    {t \in Tables(n) : \A i \in 1..Len(t) - 1 : t[i] <= t[i + 1]}

FloatSize(tenths) == [kind |-> "f", v |-> tenths]

IntSize(k) == [kind |-> "i", v |-> k]

\* test_size: floats -0.5, 0, 0.2 (the default), 0.4, 0.5, 1.0, 1.5 and the
\* ints -1, 0, 1, 2, 9.
TestSizes == {FloatSize(t) : t \in {-5, 0, 2, 4, 5, 10, 15}}
             \cup {IntSize(k) : k \in {-1, 0, 1, 2, 9}}

SmallTestSizes == {FloatSize(0), FloatSize(2), FloatSize(5), FloatSize(10), IntSize(1)}

\* What the URL serves: nothing (the fetch fails), a file that is no tar
\* archive, or an archive holding `member` (NoFile: the archive lacks infile).
Unreachable == [reachable |-> FALSE, tar |-> FALSE, member |-> NoFile]

Remotes ==
    {Unreachable, [reachable |-> TRUE, tar |-> FALSE, member |-> NoFile]}
    \cup {[reachable |-> TRUE, tar |-> TRUE, member |-> m] :
            m \in {NoFile} \cup {File(t, {"median_income", "median_house_value"}) :
                                    t \in Tables(2)}}

\* States of numpy's global generator when the program starts.
GlobalSeeds == {0, 9}

\* ---------------------------------------------------------------- frames

NoFrame == [index |-> <<>>, cols |-> {}]

NoDf == [loaded |-> FALSE, vals |-> <<>>, cols |-> {}, income_range |-> <<>>]

NoResult == [kind |-> "pending", train |-> NoFrame, test |-> NoFrame]

Raised == [kind |-> "raised", train |-> NoFrame, test |-> NoFrame]

\* frame.drop([col], axis=1, inplace=True)
DropNothing(frame, col) == frame

DropColumn(frame, col) == [frame EXCEPT !.cols = @ \ {col}]

\* ------------------------------------------------------------------ state

VARIABLES
    program,        \* which script runs: "ingest" or "train"
    pc,             \* the DataLoader invocation's position
    download,       \* DataLoader.download
    save_to_disk,   \* __call__'s save_to_disk
    test_size,      \* DataLoader.test_size
    infile,         \* input_path/infile
    tgz,            \* whether input_path/temp.tgz exists
    remote,         \* what the url serves
    df,             \* _split's df
    train,          \* __call__'s train
    test,           \* __call__'s test
    result,         \* what the invocation returned
    error,          \* the exception the invocation ended in
    out,            \* output_path/train.csv and test.csv
    steps,          \* the steps this invocation ran, in order
    runs,           \* invocations of the DataLoader object so far
    prev,           \* the previous invocation's df, parts and outcome
    globalRng,      \* numpy's global RandomState
    tpc,            \* the training script's position
    housing,        \* housing.csv: rows <<total_rooms, median_house_value>>
    argv,           \* the value given to --normalize ("absent": not given)
    terror,         \* the exception the training script ended in
    ns,             \* the training script's names
    rf              \* what the regressor was given

vars == <<stream, program, pc, download, save_to_disk, test_size, infile, tgz, remote,
          df, train, test, result, error, out, steps, runs, prev, globalRng,
          tpc, housing, argv, terror, ns, rf>>

ingestVars == <<pc, download, save_to_disk, test_size, infile, tgz, remote,
                df, train, test, result, error, out, steps, runs, prev>>

trainVars == <<tpc, housing, argv, terror, ns, rf>>

NoOut == [written |-> FALSE, run |-> 0, train |-> NoFrame, test |-> NoFrame]

NoPrev == [df |-> NoDf, train |-> NoFrame, test |-> NoFrame,
           result |-> NoResult, error |-> "none"]

\* A table of the training script: the row labels (the pandas index; none for
\* a numpy array) and the rows' values.
NoTable == [index |-> <<>>, values |-> <<>>]

NoNs == [normalize |-> FALSE, X |-> NoTable, y |-> NoTable,
         X_train |-> NoTable, X_test |-> NoTable,
         y_train |-> NoTable, y_test |-> NoTable]

NoRf == [fit_X |-> NoTable, fit_y |-> NoTable,
         predict_X |-> NoTable, y_true |-> NoTable]


\* ------------------------------------------------------------ DataLoader

\* sklearn's check_random_state: an int seed gives a RandomState of its own;
\* numpy's global one is used only when no seed is given.
CheckRandomStateGlobal(seed, g) == [state |-> g, global |-> TRUE]

CheckRandomState(seed, g) == [state |-> SeedRng(seed), global |-> FALSE]

\* train_test_split(df, test_size=ts, random_state=..., shuffle=True,
\* stratify=y) on the rows 1..Len(y).
TrainTestSplit(y, ts, s) ==
    LET sizes == ValidateShuffleSplit(Len(y), ts)
    IN IF sizes.error # "none"
       THEN [error |-> sizes.error, train |-> <<>>, test |-> <<>>, rng |-> s]
       ELSE StratifiedShuffleSplit(y, sizes.n_train, sizes.n_test, s)

\* `if not infile.exists()` of _download_data.
DownloadAlways(file) == TRUE

DownloadNeeded(file) == ~file.exists

\* pd.read_csv(infile) inside _load_data's try: a missing file is reported
\* and raised again as FileNotFoundError.
ReadCsvSwallowed(file) ==
    [error |-> "none",
     df |-> [loaded |-> TRUE, vals |-> file.vals, cols |-> file.cols,
             income_range |-> <<>>]]

ReadCsv(file) ==
    IF file.exists
    THEN [error |-> "none",
          df |-> [loaded |-> TRUE, vals |-> file.vals, cols |-> file.cols,
                  income_range |-> <<>>]]
    ELSE [error |-> "FileNotFoundError", df |-> NoDf]

\* Where __call__ goes when `step` raises: nothing catches the exception, so
\* the invocation is over.
AfterFailureRetry(step) == step

AfterFailure(step) == "done"

\* The start of __call__: `if self.download`.
Call ==
    /\ program = "ingest" /\ pc = "call"
    /\ pc' = IF download THEN "download" ELSE "load"
    /\ UNCHANGED <<stream, program, download, save_to_disk, test_size, infile, tgz,
                   remote, df, train, test, result, error, out, steps, runs,
                   prev, globalRng, trainVars>>

\* _download_data(url): when infile is absent, fetch the url to temp.tgz,
\* extract it into the input directory and remove temp.tgz.
DownloadData ==
    /\ program = "ingest" /\ pc = "download"
    /\ IF DownloadNeeded(infile)
       THEN IF ~remote.reachable
            THEN /\ steps' = steps \o <<"download", "urlretrieve">>
                 /\ error' = "URLError"
                 /\ result' = Raised
                 /\ pc' = AfterFailure("download")
                 /\ UNCHANGED <<infile, tgz>>
            ELSE IF ~remote.tar
            THEN /\ steps' = steps \o <<"download", "urlretrieve", "extract">>
                 /\ tgz' = TRUE
                 /\ error' = "ReadError"
                 /\ result' = Raised
                 /\ pc' = AfterFailure("download")
                 /\ UNCHANGED infile
            ELSE /\ steps' = steps \o <<"download", "urlretrieve", "extract">>
                 /\ infile' = IF remote.member.exists THEN remote.member ELSE infile
                 /\ tgz' = FALSE
                 /\ pc' = "load"
                 /\ UNCHANGED <<error, result>>
       ELSE /\ steps' = Append(steps, "download")
            /\ pc' = "load"
            /\ UNCHANGED <<infile, tgz, error, result>>
    /\ UNCHANGED <<stream, program, download, save_to_disk, test_size, remote, df,
                   train, test, out, runs, prev, globalRng, trainVars>>

\* _load_data(), the first statement of _split.
LoadData ==
    /\ program = "ingest" /\ pc = "load"
    /\ steps' = Append(steps, "load")
    /\ LET r == ReadCsv(infile)
       IN IF r.error # "none"
          THEN /\ error' = r.error
               /\ result' = Raised
               /\ pc' = AfterFailure("load")
               /\ UNCHANGED df
          ELSE /\ df' = r.df
               /\ pc' = "split"
               /\ UNCHANGED <<error, result>>
    /\ UNCHANGED <<stream, program, download, save_to_disk, test_size, infile, tgz,
                   remote, train, test, out, runs, prev, globalRng, trainVars>>

\* The rest of _split: label the rows with pd.cut, split them stratified by
\* the label, drop the label column from both parts.
Split ==
    /\ program = "ingest" /\ pc = "split"
    /\ steps' = Append(steps, "split")
    /\ IF "median_income" \notin df.cols
       THEN /\ error' = "KeyError"
            /\ result' = Raised
            /\ pc' = AfterFailure("split")
            /\ UNCHANGED <<df, train, test, globalRng>>
       ELSE LET labelled == [df EXCEPT
                               !.cols = @ \cup {"income_range"},
                               !.income_range = [i \in 1..Len(df.vals) |-> Cut(df.vals[i])]]
                rs == CheckRandomState(random_state, globalRng)
                s == TrainTestSplit(labelled.income_range, test_size, rs.state)
            IN /\ df' = labelled
               /\ globalRng' = IF rs.global THEN s.rng ELSE globalRng
               /\ IF s.error # "none"
                  THEN /\ error' = s.error
                       /\ result' = Raised
                       /\ pc' = AfterFailure("split")
                       /\ UNCHANGED <<train, test>>
                  ELSE /\ train' = DropColumn([index |-> s.train, cols |-> labelled.cols],
                                              "income_range")
                       /\ test' = DropColumn([index |-> s.test, cols |-> labelled.cols],
                                             "income_range")
                       /\ pc' = "save"
                       /\ UNCHANGED <<error, result>>
    /\ UNCHANGED <<stream, program, download, save_to_disk, test_size, infile, tgz,
                   remote, out, runs, prev, trainVars>>

\* The end of __call__: write train.csv and test.csv and return None, or
\* return the pair.
Finish ==
    /\ program = "ingest" /\ pc = "save"
    /\ IF save_to_disk
       THEN /\ out' = [written |-> TRUE, run |-> runs, train |-> train, test |-> test]
            /\ steps' = Append(steps, "save")
            /\ result' = [kind |-> "None", train |-> NoFrame, test |-> NoFrame]
       ELSE /\ result' = [kind |-> "pair", train |-> train, test |-> test]
            /\ UNCHANGED <<out, steps>>
    /\ pc' = "done"
    /\ UNCHANGED <<stream, program, download, save_to_disk, test_size, infile, tgz,
                   remote, df, train, test, error, runs, prev, globalRng,
                   trainVars>>

\* The operator calls the same DataLoader object again.
Reinvoke ==
    /\ program = "ingest" /\ pc = "done" /\ runs < MaxRuns
    /\ prev' = [df |-> df, train |-> train, test |-> test,
                result |-> result, error |-> error]
    /\ runs' = runs + 1
    /\ pc' = "call"
    /\ df' = NoDf
    /\ train' = NoFrame
    /\ test' = NoFrame
    /\ result' = NoResult
    /\ error' = "none"
    /\ steps' = <<>>
    /\ UNCHANGED <<stream, program, download, save_to_disk, test_size, infile, tgz,
                   remote, out, globalRng, trainVars>>


\* -------------------------------------------------------------- train.py

\* Rows of housing.csv: <<total_rooms, median_house_value>>, a cell of the
\* first column possibly empty.
HousingRows == {<<r, v>> : r \in {NaN, 1, 2}, v \in {1, 3}}

HousingTables(n) == UNION {[1..k -> HousingRows] : k \in 0..n}

\* argparse's type=bool on --normalize: bool(string), true of every string
\* but the empty one; the default is True.
ParseNormalize(arg) == IF arg = "absent" THEN TRUE ELSE arg # ""

\* df.dropna(inplace=True): the labels of the rows without an empty cell.
Dropna(table) == Ascending({i \in 1..Len(table) : NaN \notin Range(table[i])})

\* StandardScaler().fit_transform(X): every column centred on its mean. The
\* model keeps n * (x - mean), an integer; the division by the column's
\* deviation is left out. The result is a new array without row labels.
FitTransform(X) ==
    LET n == Len(X.values)
        colsum(j) == SumSeq([i \in 1..n |-> X.values[i][j]])
    IN [index |-> <<>>,
        values |-> [i \in 1..n |->
                       [j \in 1..Len(X.values[i]) |-> n * X.values[i][j] - colsum(j)]]]

\* Line 49, `X = scaler.fit_transform(X)`: the scaled table is bound to X.
BindScaledEverywhere(names) ==
    [names EXCEPT !.X = FitTransform(names.X),
                  !.X_train = FitTransform(names.X_train),
                  !.X_test = FitTransform(names.X_test)]

BindScaled(names) == [names EXCEPT !.X = FitTransform(names.X)]

\* table.iloc[positions]
Rows(table, positions) ==
    [index |-> Take(table.index, positions), values |-> Take(table.values, positions)]

\* Lines 28-42: read housing.csv, parse the options, drop the rows with an
\* empty cell, bind X and y.
T_Load ==
    /\ program = "train" /\ tpc = "load"
    /\ LET kept == Dropna(housing)
       IN ns' = [ns EXCEPT
                   !.normalize = ParseNormalize(argv),
                   !.X = [index |-> kept, values |-> Take(housing, kept)],
                   !.y = [index |-> kept,
                          values |-> [k \in 1..Len(kept) |-> housing[kept[k]][2]]]]
    /\ tpc' = "split"
    /\ UNCHANGED <<stream, program, ingestVars, globalRng, housing, argv, terror, rf>>

\* Line 43: train_test_split(X, y, test_size=0.2), unseeded: one permutation
\* of the rows from numpy's global generator, its head the test rows.
T_Split ==
    /\ program = "train" /\ tpc = "split"
    /\ LET n == Len(ns.X.index)
           sizes == ValidateShuffleSplit(n, FloatSize(2))
           p == Permutation([i \in 1..n |-> i], globalRng)
           ind_test == SubSeq(p.perm, 1, sizes.n_test)
           ind_train == SubSeq(p.perm, sizes.n_test + 1, sizes.n_test + sizes.n_train)
       IN IF sizes.error # "none"
          THEN /\ terror' = sizes.error
               /\ tpc' = "done"
               /\ UNCHANGED <<ns, globalRng>>
          ELSE /\ ns' = [ns EXCEPT !.X_train = Rows(ns.X, ind_train),
                                   !.X_test = Rows(ns.X, ind_test),
                                   !.y_train = Rows(ns.y, ind_train),
                                   !.y_test = Rows(ns.y, ind_test)]
               /\ globalRng' = p.rng
               /\ tpc' = "scale"
               /\ UNCHANGED terror
    /\ UNCHANGED <<stream, program, ingestVars, housing, argv, rf>>

\* Lines 47-49: `if opt.normalize == True`.
T_Normalize ==
    /\ program = "train" /\ tpc = "scale"
    /\ ns' = IF ns.normalize THEN BindScaled(ns) ELSE ns
    /\ tpc' = "fit"
    /\ UNCHANGED <<stream, program, ingestVars, globalRng, housing, argv, terror, rf>>

\* Lines 51-56: rf.fit(X_train, y_train).
T_Fit ==
    /\ program = "train" /\ tpc = "fit"
    /\ rf' = [rf EXCEPT !.fit_X = ns.X_train, !.fit_y = ns.y_train]
    /\ tpc' = "predict"
    /\ UNCHANGED <<stream, program, ingestVars, globalRng, housing, argv, terror, ns>>

\* Lines 57-61: model.predict(X_test), scored against y_test.
T_Predict ==
    /\ program = "train" /\ tpc = "predict"
    /\ rf' = [rf EXCEPT !.predict_X = ns.X_test, !.y_true = ns.y_test]
    /\ tpc' = "done"
    /\ UNCHANGED <<stream, program, ingestVars, globalRng, housing, argv, terror, ns>>

\* ------------------------------------------------------------------ Init

IdleIngest ==
    /\ pc = "idle" /\ download = FALSE /\ save_to_disk = FALSE
    /\ test_size = FloatSize(2) /\ infile = NoFile /\ tgz = FALSE
    /\ remote = Unreachable

IdleTrain ==
    /\ tpc = "idle" /\ housing = <<>> /\ argv = "absent"

Fresh ==
    /\ df = NoDf /\ train = NoFrame /\ test = NoFrame /\ result = NoResult
    /\ error = "none" /\ out = NoOut /\ steps = <<>> /\ runs = 1 /\ prev = NoPrev
    /\ terror = "none" /\ ns = NoNs /\ rf = NoRf

\* A DataLoader read from a local file: every table of at most MaxRows rows
\* in every row order, with every column set, or no file at all.
InitLocal ==
    /\ program = "ingest" /\ pc = "call" /\ IdleTrain /\ Fresh
    /\ download = FALSE
    /\ save_to_disk \in BOOLEAN
    /\ test_size \in SmallTestSizes
    /\ infile \in {NoFile} \cup {File(t, c) : t \in Tables(MaxRows), c \in ColumnSets}
    /\ tgz = FALSE
    /\ remote = Unreachable
    /\ globalRng = 0
    /\ stream = <<5, 3>>

\* A DataLoader with download set: the local file absent or present (a table
\* of at most one row), a stale temp.tgz or none, and every remote.
InitDownload ==
    /\ program = "ingest" /\ pc = "call" /\ IdleTrain /\ Fresh
    /\ download = TRUE
    /\ save_to_disk \in BOOLEAN
    /\ test_size \in SmallTestSizes
    /\ infile \in {NoFile} \cup {File(t, c) : t \in Tables(1), c \in ColumnSets}
    /\ tgz \in BOOLEAN
    /\ remote \in Remotes
    /\ globalRng = 0
    /\ stream = <<5, 3>>

\* A DataLoader splitting a local file of the expected columns: every table
\* of at most MaxSplitRows rows in income order, with every test size.
InitSplit ==
    /\ program = "ingest" /\ pc = "call" /\ IdleTrain /\ Fresh
    /\ download = FALSE
    /\ save_to_disk = FALSE
    /\ test_size \in TestSizes
    /\ infile \in {File(t, {"median_income", "median_house_value"}) :
                     t \in SortedTables(MaxSplitRows)}
    /\ tgz = FALSE
    /\ remote = Unreachable
    /\ globalRng \in GlobalSeeds
    /\ stream \in Streams

\* The training script on every housing.csv of at most MaxTrainRows rows.
InitTrain ==
    /\ program = "train" /\ tpc = "load" /\ IdleIngest /\ Fresh
    /\ housing \in HousingTables(MaxTrainRows)
    /\ argv \in {"absent", "", "False", "True"}
    /\ globalRng \in GlobalSeeds
    /\ stream \in Streams

Init == InitLocal \/ InitDownload \/ InitSplit \/ InitTrain

Next ==
    \/ Call
    \/ DownloadData
    \/ LoadData
    \/ Split
    \/ Finish
    \/ Reinvoke
    \/ T_Load
    \/ T_Split
    \/ T_Normalize
    \/ T_Fit
    \/ T_Predict

Spec == Init /\ [][Next]_vars


\* ------------------------------------------------------------ properties

NoDuplicates(s) == Cardinality(Range(s)) = Len(s)

\* _split has returned its pair to __call__.
SplitReturned == program = "ingest" /\ pc \in {"save", "done"} /\ error = "none"

\* The rows of the part `index` that carry the label b.
CountIn(index, b) ==
    Cardinality({k \in 1..Len(index) : df.income_range[index[k]] = b})

\* The rows of the loaded table that carry the label b.
BucketSize(b) ==
    Cardinality({i \in 1..Len(df.income_range) : df.income_range[i] = b})

Breakpoints == <<3, 6, 9, 12>>

SpecBucket(x) ==
    IF \E i \in 1..Len(Breakpoints) : x <= Breakpoints[i]
    THEN (CHOOSE i \in 1..Len(Breakpoints) :
              x <= Breakpoints[i] /\ \A j \in 1..(i - 1) : x > Breakpoints[j]) - 1
    ELSE Len(Breakpoints)

\* C2: every record is labelled, whatever its median_income, with the index
\* of the first breakpoint its value does not exceed, or with the last bucket:
\* an integer in [0, k).
C2_TotalLabelling ==
    (program = "ingest" /\ "income_range" \in df.cols) =>
        \A i \in 1..Len(df.vals) :
            /\ df.income_range[i] \in 0..Len(Breakpoints)
            /\ df.income_range[i] = SpecBucket(df.vals[i])

\* round(a / b), halves to the even neighbour, for a >= 0 and b > 0.
RoundDiv(a, b) ==
    LET q == a \div b
        r == a % b
    IN IF 2 * r < b THEN q
       ELSE IF 2 * r > b THEN q + 1
       ELSE IF q % 2 = 0 THEN q ELSE q + 1

C3_Example ==
    /\ SplitReturned /\ test_size = FloatSize(4)
    /\ df.vals = <<3, 3, 4, 4, 4, 13, 13>>

C4_Columns ==
    SplitReturned =>
        /\ train.cols = infile.cols /\ test.cols = infile.cols
        /\ "income_range" \notin train.cols \cup test.cols
        /\ result.kind = "pair" =>
               result.train.cols = infile.cols /\ result.test.cols = infile.cols
        /\ (out.written /\ out.run = runs) =>
               out.train.cols = infile.cols /\ out.test.cols = infile.cols

\* C4's case: the files were written from a table of two columns that was
\* labelled.
C4_Witness ==
    /\ SplitReturned /\ pc = "done" /\ out.written /\ out.run = runs
    /\ "income_range" \in df.cols
    /\ infile.cols = {"median_income", "median_house_value"}
    /\ Len(out.train.index) >= 1

\* C5: a second invocation that loads the same table, with the same
\* test_size and the same seed, ends as the first did: the same records in
\* train and in test, in the same order, or the same error.
C5_Deterministic ==
    (program = "ingest" /\ pc = "done" /\ runs > 1
        /\ df.loaded /\ prev.df.loaded
        /\ df.vals = prev.df.vals /\ df.cols = prev.df.cols) =>
        /\ train = prev.train
        /\ test = prev.test
        /\ error = prev.error

\* C5's case: the second invocation has split a table of several rows whose
\* parts could be ordered differently.
C5_Witness ==
    /\ program = "ingest" /\ pc = "done" /\ runs > 1 /\ error = "none"
    /\ prev.error = "none"
    /\ Len(train.index) >= 2 /\ Len(test.index) >= 2

\* A test_size strictly between 0 and 1.
ValidFraction(ts) == ts.kind = "f" /\ 0 < ts.v /\ ts.v < 10

\* C6: when the test fraction is not strictly between 0 and 1, whatever its
\* numeric type, the split fails with an InvalidArgument error (ValueError)
\* and no pair is returned.
C6_InvalidRejected ==
    (program = "ingest" /\ "income_range" \in df.cols /\ pc \in {"save", "done"}
        /\ ~ValidFraction(test_size)) =>
        /\ error = "ValueError"
        /\ result.kind # "pair"
        /\ train = NoFrame /\ test = NoFrame

C8_DownloadNoOp ==
    [][(program = "ingest" /\ pc = "download" /\ infile.exists) =>
          /\ steps' = Append(steps, "download")
          /\ infile' = infile
          /\ tgz' = tgz
          /\ out' = out
          /\ error' = error
          /\ pc' = "load"]_vars

\* C8's case: the download step has run on an existing file, beside a stale
\* temp.tgz, with a url that would have served an archive holding another
\* table.
C8_Witness ==
    /\ program = "ingest" /\ download /\ pc = "load"
    /\ steps = <<"download">>
    /\ infile.exists /\ tgz
    /\ remote.tar /\ remote.member.exists /\ remote.member # infile

\* C9: a failed fetch, a failed extraction or a failed read ends the
\* invocation there: no step ran twice, none ran after the failing one, no
\* pair is returned and no file is written in this invocation.
C9_FailureIsFatal ==
    (program = "ingest" /\ error \in {"URLError", "ReadError", "FileNotFoundError"}) =>
        /\ pc = "done"
        /\ result = Raised
        /\ NoDuplicates(steps)
        /\ Range(steps) \cap {"split", "save"} = {}
        /\ error = "FileNotFoundError" => steps[Len(steps)] = "load"
        /\ error \in {"URLError", "ReadError"} =>
               "load" \notin Range(steps) /\ steps[Len(steps)] \in {"urlretrieve", "extract"}
        /\ ~(out.written /\ out.run = runs)

\* C9's case: the operator ran the loader again after a failed fetch and the
\* fetch failed again.
C9_Witness ==
    /\ program = "ingest" /\ pc = "done" /\ runs > 1
    /\ error = "URLError" /\ prev.error = "URLError"

\* The rows of housing.csv with the labels of `table`.
RawX(table) == [k \in 1..Len(table.index) |-> housing[table.index[k]]]

RawY(table) == [k \in 1..Len(table.index) |-> housing[table.index[k]][2]]

\* C10: whether --normalize is on or off, the tables given to fit and to
\* predict are the parts of the split as it left them: rows of housing.csv,
\* unscaled, train and test apart.
C10_UnscaledInputs ==
    (program = "train" /\ tpc = "done" /\ terror = "none") =>
        /\ rf.fit_X = ns.X_train /\ rf.fit_y = ns.y_train
        /\ rf.predict_X = ns.X_test /\ rf.y_true = ns.y_test
        /\ rf.fit_X.values = RawX(rf.fit_X)
        /\ rf.fit_y.values = RawY(rf.fit_y)
        /\ rf.predict_X.values = RawX(rf.predict_X)
        /\ rf.y_true.values = RawY(rf.y_true)
        /\ rf.fit_X.index = rf.fit_y.index
        /\ rf.predict_X.index = rf.y_true.index
        /\ Range(rf.fit_X.index) \cap Range(rf.predict_X.index) = {}

\* C10's case: the script ran to its end with the flag on and the scaling
\* changed X.
C10_Witness ==
    /\ program = "train" /\ tpc = "done" /\ terror = "none"
    /\ ns.normalize
    /\ ns.X.index = <<>> /\ Len(ns.X.values) >= 2
    /\ \E i \in 1..Len(ns.X.values) : ns.X.values[i] \notin Range(housing)
    /\ Len(rf.fit_X.values) >= 2

=============================================================================
